---- MODULE Spec2Model ----
(***************************************************************************)
(* Sales analytics system: main.py, utils/file_handler.py,                 *)
(* utils/api_handler.py and utils/data_processor.py as a state machine.    *)
(*                                                                         *)
(* Python values are modelled as follows.                                  *)
(*   str    a sequence of one-character strings ("" is << >>)              *)
(*   int    an integer                                                     *)
(*   float  a binary floating-point number [m |-> significand, e |->       *)
(*          exponent] of value m * 2^e, rounded to nearest, ties to even,  *)
(*          as IEEE-754 does; the significand has MantissaBits bits (53 in *)
(*          CPython), the exponent is unbounded (no inf, no nan)           *)
(*   None   << >> where a value may be None, and <<v>> for the value v     *)
(*   dict   a sequence of <<key, value>> pairs in insertion order          *)
(*   list   a sequence                                                     *)
(***************************************************************************)
EXTENDS Integers, Sequences, FiniteSets, TLC

VARIABLES
    pc,                     \* position of the driver, or the library call made
    outcome,                \* how main() ended: which except clause ran
    file,                   \* the input file on disk
    raw_lines,              \* main: raw_lines
    transactions,           \* main: transactions (the records a call is given)
    valid_temp,             \* main: valid_temp
    summary_temp,           \* main: summary_temp
    valid_transactions,     \* main: valid_transactions
    invalid_count,          \* main: invalid_count
    summary,                \* main: summary
    api_products,           \* main: api_products (the fetched catalog)
    product_mapping,        \* main: product_mapping
    enriched_transactions,  \* main: enriched_transactions
    enriched_file,          \* data/enriched_sales_data.txt
    report_file,            \* output/sales_report.txt
    region,                 \* argument region of validate_and_filter
    min_amount,             \* argument min_amount of validate_and_filter
    max_amount,             \* argument max_amount of validate_and_filter
    n,                      \* argument n of top_selling_products
    threshold,              \* argument threshold of low_performing_products
    ret                     \* what the library call returned, or raised

vars == <<pc, outcome, file, raw_lines, transactions, valid_temp, summary_temp,
          valid_transactions, invalid_count, summary, api_products,
          product_mapping, enriched_transactions, enriched_file, report_file,
          region, min_amount, max_amount, n, threshold, ret>>

(***************************************************************************)
(* Bounds of the model.                                                    *)
(***************************************************************************)
\* significand width of the modelled float (CPython: 53)
MantissaBits == 3
\* lines of the input file after the header
MaxFileLines == 3
\* records handed to validate_and_filter
MaxValidateRecs == 3
\* records handed to an analytics function
MaxAnalyticsRecs == 3
\* entries of the fetched catalog
MaxCatalog == 3
\* records handed to enrich_sales_data
MaxEnrichRecs == 2
\* largest n handed to top_selling_products
MaxN == 3

(***************************************************************************)
(* None and optional values.                                               *)
(***************************************************************************)
None == << >>

Some(v) == <<v>>

IsNone(o) == o = << >>

Val(o) == o[1]

(***************************************************************************)
(* Characters and strings.                                                 *)
(***************************************************************************)
\* the characters of the model in code-point order (a subsequence of ASCII)
Ascii ==
    <<" ", "+", ",", "-", ".", "0", "1", "2", "3", "4", "5", "6", "7", "8",
      "9", "A", "B", "C", "D", "E", "F", "G", "H", "I", "J", "K", "L", "M",
      "N", "O", "P", "Q", "R", "S", "T", "U", "V", "W", "X", "Y", "Z", "_",
      "a", "b", "c", "d", "e", "f", "g", "h", "i", "j", "k", "l", "m", "n",
      "o", "p", "q", "r", "s", "t", "u", "v", "w", "x", "y", "z", "|">>

\* the rank of c in code-point order: Ord(a) < Ord(b) iff ord(a) < ord(b)
Ord(c) == CHOOSE i \in 1..Len(Ascii) : Ascii[i] = c

Digits == {"0", "1", "2", "3", "4", "5", "6", "7", "8", "9"}

DigitVal(c) == Ord(c) - Ord("0")

IsSpace(c) == c \in {" ", "\t", "\n", "\r"}

\* a < b for two str, as Python compares them (by code point, then by length)
RECURSIVE StrLess(_, _)
StrLess(a, b) ==
    IF b = << >> THEN FALSE
    ELSE IF a = << >> THEN TRUE
    ELSE IF a[1] # b[1] THEN Ord(a[1]) < Ord(b[1])
    ELSE StrLess(Tail(a), Tail(b))

\* s.startswith(c) for a one-character prefix c
StartsWith(s, c) == s # << >> /\ s[1] = c

\* s.replace(c, "")
Remove(s, c) == SelectSeq(s, LAMBDA x : x # c)

RECURSIVE LStrip(_)
LStrip(s) == IF s # << >> /\ IsSpace(s[1]) THEN LStrip(Tail(s)) ELSE s

RECURSIVE RStrip(_)
RStrip(s) ==
    IF s # << >> /\ IsSpace(s[Len(s)]) THEN RStrip(SubSeq(s, 1, Len(s) - 1))
    ELSE s

\* s.strip()
Strip(s) == RStrip(LStrip(s))

\* s.split(sep): the fields between the separators, at least one
RECURSIVE SplitFrom(_, _, _)
SplitFrom(s, sep, cur) ==
    IF s = << >> THEN <<cur>>
    ELSE IF s[1] = sep THEN <<cur>> \o SplitFrom(Tail(s), sep, << >>)
    ELSE SplitFrom(Tail(s), sep, Append(cur, s[1]))

Split(s, sep) == SplitFrom(s, sep, << >>)

(***************************************************************************)
(* float: IEEE-754 binary arithmetic, round to nearest, ties to even.      *)
(***************************************************************************)
RECURSIVE Pow2(_)
Pow2(k) == IF k = 0 THEN 1 ELSE 2 * Pow2(k - 1)

RECURSIVE Pow10(_)
Pow10(k) == IF k = 0 THEN 1 ELSE 10 * Pow10(k - 1)

\* the float nearest to (num / den) * 2^e, for num >= 0 and den > 0
RECURSIVE RoundPos(_, _, _)
RoundPos(num, den, e) ==
    IF num = 0 THEN [m |-> 0, e |-> 0]
    ELSE IF num >= Pow2(MantissaBits) * den THEN RoundPos(num, 2 * den, e + 1)
    ELSE IF num < Pow2(MantissaBits - 1) * den THEN RoundPos(2 * num, den, e - 1)
    ELSE LET q == num \div den
             r == num % den
             up == 2 * r > den \/ (2 * r = den /\ q % 2 = 1)
             m == IF up THEN q + 1 ELSE q
         IN  IF m = Pow2(MantissaBits)
             THEN [m |-> Pow2(MantissaBits - 1), e |-> e + 1]
             ELSE [m |-> m, e |-> e]

\* the float nearest to (num / den) * 2^e, for den > 0
Round(num, den, e) ==
    IF num < 0
    THEN LET r == RoundPos(-num, den, e) IN [m |-> -r.m, e |-> r.e]
    ELSE RoundPos(num, den, e)

\* float(i) for an int i
FromInt(i) == Round(i, 1, 0)

Zero == [m |-> 0, e |-> 0]

\* float("nan"): not a number, unordered against every float
NaN == [m |-> 0, e |-> 1]

IsNaN(a) == a = NaN

Min(a, b) == IF a < b THEN a ELSE b

\* the significand of a at the exponent e <= a.e
Scaled(a, e) == a.m * Pow2(a.e - e)

\* a + b
FAdd(a, b) ==
    IF IsNaN(a) \/ IsNaN(b) THEN NaN
    ELSE LET e == Min(a.e, b.e) IN Round(Scaled(a, e) + Scaled(b, e), 1, e)

\* a * b
FMul(a, b) ==
    IF IsNaN(a) \/ IsNaN(b) THEN NaN ELSE Round(a.m * b.m, 1, a.e + b.e)

\* a / b for b # 0 (b = 0 raises ZeroDivisionError, which the caller decides)
FDiv(a, b) ==
    IF IsNaN(a) \/ IsNaN(b) THEN NaN
    ELSE IF b.m < 0 THEN Round(-a.m, -b.m, a.e - b.e)
    ELSE Round(a.m, b.m, a.e - b.e)

\* a < b, false when either is nan
FLess(a, b) ==
    /\ ~IsNaN(a) /\ ~IsNaN(b)
    /\ LET e == Min(a.e, b.e) IN Scaled(a, e) < Scaled(b, e)

\* a <= b, false when either is nan
FLeq(a, b) == ~IsNaN(a) /\ ~IsNaN(b) /\ ~FLess(b, a)

(***************************************************************************)
(* int(s) and float(s): << >> when Python raises ValueError.  Decimal      *)
(* literals with sign, surrounding whitespace, underscores and a fraction, *)
(* and the word nan; the exponent form and the word inf are not in the     *)
(* model's inputs.                                                         *)
(***************************************************************************)
\* digits, single underscores only between digits
WellFormedDigits(s) ==
    /\ s # << >>
    /\ s[1] \in Digits
    /\ s[Len(s)] \in Digits
    /\ \A i \in 1..Len(s) : s[i] \in Digits \cup {"_"}
    /\ \A i \in 1..(Len(s) - 1) : ~(s[i] = "_" /\ s[i + 1] = "_")

RECURSIVE DecVal(_)
DecVal(s) ==
    IF s = << >> THEN 0
    ELSE 10 * DecVal(SubSeq(s, 1, Len(s) - 1)) + DigitVal(s[Len(s)])

Signed(s) == s # << >> /\ s[1] \in {"+", "-"}

Unsigned(s) == IF Signed(s) THEN Tail(s) ELSE s

SignOf(s) == IF s # << >> /\ s[1] = "-" THEN -1 ELSE 1

\* int(str)
ParseInt(str) ==
    LET s == Strip(str)
        body == Unsigned(s)
    IN  IF WellFormedDigits(body)
        THEN Some(SignOf(s) * DecVal(Remove(body, "_")))
        ELSE None

\* the word nan in any case
IsNaNWord(s) ==
    /\ Len(s) = 3
    /\ s[1] \in {"n", "N"} /\ s[2] \in {"a", "A"} /\ s[3] \in {"n", "N"}

\* float(str)
ParseFloat(str) ==
    LET s == Strip(str)
        parts == Split(Unsigned(s), ".")
        ip == parts[1]
        fp == IF Len(parts) = 2 THEN parts[2] ELSE << >>
        ok == /\ Len(parts) <= 2
              /\ ip = << >> \/ WellFormedDigits(ip)
              /\ fp = << >> \/ WellFormedDigits(fp)
              /\ ip # << >> \/ fp # << >>
        fd == Remove(fp, "_")
    IN  IF IsNaNWord(Unsigned(s)) THEN Some(NaN)
        ELSE IF ok
        THEN Some(Round(SignOf(s) * DecVal(Remove(ip, "_") \o fd),
                        Pow10(Len(fd)), 0))
        ELSE None

(***************************************************************************)
(* utils/file_handler.py                                                   *)
(***************************************************************************)
encodings_to_try == <<"utf-8", "latin-1", "cp1252">>

\* open(filename, encoding=enc) and f.readlines(): the error raised, or None.
\* latin-1 decodes every byte sequence; utf-8 only a file that is valid UTF-8.
OpenError(f, enc) ==
    IF ~f.exists THEN Some("FileNotFoundError")
    ELSE IF enc = "utf-8" /\ ~f.utf8 THEN Some("UnicodeDecodeError")
    ELSE None

\* the for loop over encodings_to_try from encoding i on:
\* [lines, last_error] when it ends
RECURSIVE TryEncodings(_, _, _)
TryEncodings(f, i, last_error) ==
    IF i > Len(encodings_to_try)
    THEN [lines |-> None, last_error |-> last_error]
    ELSE LET err == OpenError(f, encodings_to_try[i])
         IN  IF IsNone(err)
             THEN [lines |-> Some(SelectSeq([k \in 1..Len(f.lines) |->
                                                Strip(f.lines[k])],
                                            LAMBDA l : l # << >>)),
                   last_error |-> last_error]
             ELSE TryEncodings(f, i + 1, err)

\* read_sales_data(filename): the list it returns
read_sales_data(f) ==
    LET r == TryEncodings(f, 1, None)
    IN  IF IsNone(r.lines) THEN << >>
        ELSE IF Val(r.lines) # << >> THEN Tail(Val(r.lines))
        ELSE Val(r.lines)

(***************************************************************************)
(* utils/data_processor.py: parsing                                        *)
(***************************************************************************)
_clean_product_name(name) == Remove(name, ",")

_clean_number(num_str) == Remove(num_str, ",")

\* one iteration of the loop of parse_transactions: the record appended, or
\* None when the line is skipped
ParseLine(line) ==
    LET parts == Split(line, "|")
    IN  IF Len(parts) # 8 THEN None
        ELSE LET quantity == ParseInt(_clean_number(parts[5]))
                 unit_price == ParseFloat(_clean_number(parts[6]))
             IN  IF IsNone(quantity) \/ IsNone(unit_price) THEN None
                 ELSE Some([TransactionID |-> parts[1],
                            Date |-> parts[2],
                            ProductID |-> parts[3],
                            ProductName |-> _clean_product_name(parts[4]),
                            Quantity |-> Val(quantity),
                            UnitPrice |-> Val(unit_price),
                            CustomerID |-> parts[7],
                            Region |-> parts[8]])

RECURSIVE parse_transactions(_)
parse_transactions(lines) ==
    IF lines = << >> THEN << >>
    ELSE ParseLine(lines[1]) \o parse_transactions(Tail(lines))

(***************************************************************************)
(* utils/data_processor.py: validation and filters                         *)
(***************************************************************************)
\* Quantity * UnitPrice
Amount(t) == FMul(FromInt(t.Quantity), t.UnitPrice)

required_fields == {"TransactionID", "ProductID", "CustomerID", "Region"}

\* the five checks of the validation loop; a record failing one is counted
\* invalid and skipped
MissingRequired(t) == \E field \in required_fields : t[field] = << >>

NonPositive(t) == t.Quantity <= 0 \/ FLeq(t.UnitPrice, Zero)

IsValidTransaction(t) ==
    /\ ~MissingRequired(t)
    /\ ~NonPositive(t)
    /\ StartsWith(t.TransactionID, "T")
    /\ StartsWith(t.ProductID, "P")
    /\ StartsWith(t.CustomerID, "C")

\* ValidateLoop with the count of a non-positive record forgotten
RECURSIVE ValidateLoopUncounted(_, _)
ValidateLoopUncounted(ts, acc) ==
    IF ts = << >> THEN acc
    ELSE ValidateLoopUncounted(Tail(ts),
            IF IsValidTransaction(ts[1])
            THEN [acc EXCEPT !.valid = Append(@, ts[1])]
            ELSE IF NonPositive(ts[1]) THEN acc
            ELSE [acc EXCEPT !.invalid_count = @ + 1])

\* ValidateLoop with the continue of the non-positive check forgotten: the
\* record is counted and then goes on through the remaining checks
RECURSIVE ValidateLoopNoContinue(_, _)
ValidateLoopNoContinue(ts, acc) ==
    IF ts = << >> THEN acc
    ELSE LET t == ts[1]
             counted == IF ~MissingRequired(t) /\ NonPositive(t)
                        THEN [acc EXCEPT !.invalid_count = @ + 1] ELSE acc
             passes == /\ ~MissingRequired(t)
                       /\ StartsWith(t.TransactionID, "T")
                       /\ StartsWith(t.ProductID, "P")
                       /\ StartsWith(t.CustomerID, "C")
         IN  ValidateLoopNoContinue(Tail(ts),
                IF passes THEN [counted EXCEPT !.valid = Append(@, t)]
                ELSE IF NonPositive(t) /\ ~MissingRequired(t) THEN counted
                ELSE [counted EXCEPT !.invalid_count = @ + 1])

\* the validation loop: [valid, invalid_count] after the records ts
RECURSIVE ValidateLoop(_, _)
ValidateLoop(ts, acc) ==
    IF ts = << >> THEN acc
    ELSE ValidateLoop(Tail(ts),
            IF IsValidTransaction(ts[1])
            THEN [acc EXCEPT !.valid = Append(@, ts[1])]
            ELSE [acc EXCEPT !.invalid_count = @ + 1])

\* the region filter
RegionFilter(ts, reg) ==
    IF IsNone(reg) THEN ts
    ELSE SelectSeq(ts, LAMBDA t : t.Region = Val(reg))

\* the amount test of the amount filter
InAmountRange(t, lo, hi) ==
    /\ ~(~IsNone(lo) /\ FLess(Amount(t), Val(lo)))
    /\ ~(~IsNone(hi) /\ FLess(Val(hi), Amount(t)))

\* the amount filter
AmountFilter(ts, lo, hi) ==
    IF IsNone(lo) /\ IsNone(hi) THEN ts
    ELSE SelectSeq(ts, LAMBDA t : InAmountRange(t, lo, hi))

\* validate_and_filter with the amount filter applied before the region
\* filter
validate_amount_first(ts, reg, lo, hi) ==
    LET v == ValidateLoop(ts, [valid |-> << >>, invalid_count |-> 0])
        by_amount == AmountFilter(v.valid, lo, hi)
        filtered == RegionFilter(by_amount, reg)
    IN  <<filtered,
          v.invalid_count,
          [total_input |-> Len(ts),
           invalid |-> v.invalid_count,
           filtered_by_region |-> Len(by_amount) - Len(filtered),
           filtered_by_amount |-> Len(v.valid) - Len(by_amount),
           final_count |-> Len(filtered)]>>

\* validate_and_filter with final_count taken before the amount filter
validate_count_before_amount(ts, reg, lo, hi) ==
    LET v == ValidateLoop(ts, [valid |-> << >>, invalid_count |-> 0])
        by_region == RegionFilter(v.valid, reg)
        filtered == AmountFilter(by_region, lo, hi)
    IN  <<filtered,
          v.invalid_count,
          [total_input |-> Len(ts),
           invalid |-> v.invalid_count,
           filtered_by_region |-> Len(v.valid) - Len(by_region),
           filtered_by_amount |-> Len(by_region) - Len(filtered),
           final_count |-> Len(by_region)]>>

\* validate_and_filter(transactions, region, min_amount, max_amount):
\* <<filtered, invalid_count, summary>>
validate_and_filter(ts, reg, lo, hi) ==
    LET v == ValidateLoop(ts, [valid |-> << >>, invalid_count |-> 0])
        by_region == RegionFilter(v.valid, reg)
        filtered == AmountFilter(by_region, lo, hi)
    IN  <<filtered,
          v.invalid_count,
          [total_input |-> Len(ts),
           invalid |-> v.invalid_count,
           filtered_by_region |-> Len(v.valid) - Len(by_region),
           filtered_by_amount |-> Len(by_region) - Len(filtered),
           final_count |-> Len(filtered)]>>

(***************************************************************************)
(* dict, sorted() and slices.                                              *)
(***************************************************************************)
HasKey(d, k) == \E i \in 1..Len(d) : d[i][1] = k

Get(d, k) == d[CHOOSE i \in 1..Len(d) : d[i][1] = k][2]

\* d[k] = v: a new key goes last, an old key keeps its place
Put(d, k, v) ==
    IF HasKey(d, k)
    THEN [i \in 1..Len(d) |-> IF d[i][1] = k THEN <<k, v>> ELSE d[i]]
    ELSE Append(d, <<k, v>>)

\* sorted(s, key=...), before[i][j] telling that the key of s[i] sorts
\* before that of s[j]: stable, so elements neither of which is before the
\* other keep their order in s (reverse=True keeps it too)
StableSort(s, before) ==
    LET rank(i) == 1 + Cardinality({j \in 1..Len(s) :
                        \/ before[j][i]
                        \/ (~before[i][j] /\ j < i)})
    IN  [k \in 1..Len(s) |-> s[CHOOSE i \in 1..Len(s) : rank(i) = k]]

\* the orders of the keys: str ascending, float descending (reverse=True),
\* int ascending and int descending (reverse=True)
StrAscending(keys) ==
    [i \in 1..Len(keys) |-> [j \in 1..Len(keys) |-> StrLess(keys[i], keys[j])]]

FloatDescending(keys) ==
    [i \in 1..Len(keys) |-> [j \in 1..Len(keys) |-> FLess(keys[j], keys[i])]]

IntAscending(keys) ==
    [i \in 1..Len(keys) |-> [j \in 1..Len(keys) |-> keys[i] < keys[j]]]

IntDescending(keys) ==
    [i \in 1..Len(keys) |-> [j \in 1..Len(keys) |-> keys[i] > keys[j]]]

\* sorted(S) for a set S of str
SortedStrings(S) ==
    LET rank(x) == 1 + Cardinality({y \in S : StrLess(y, x)})
    IN  [k \in 1..Cardinality(S) |-> CHOOSE x \in S : rank(x) = k]

\* s[:k]
Slice(s, k) ==
    IF k >= 0 THEN SubSeq(s, 1, Min(k, Len(s))) ELSE SubSeq(s, 1, Len(s) + k)

(***************************************************************************)
(* utils/data_processor.py: analytics                                      *)
(***************************************************************************)
RECURSIVE calculate_total_revenue(_)
calculate_total_revenue(ts) ==
    IF ts = << >> THEN Zero
    ELSE FAdd(calculate_total_revenue(SubSeq(ts, 1, Len(ts) - 1)),
              Amount(ts[Len(ts)]))

\* TrendLoop with the revenue of a date set, not added, at each record
RECURSIVE TrendLoopOverwrite(_)
TrendLoopOverwrite(ts) ==
    IF ts = << >> THEN << >>
    ELSE LET trends == TrendLoopOverwrite(SubSeq(ts, 1, Len(ts) - 1))
             t == ts[Len(ts)]
             old == IF HasKey(trends, t.Date) THEN Get(trends, t.Date)
                    ELSE [revenue |-> Zero, transaction_count |-> 0,
                          unique_customers |-> {}]
         IN  Put(trends, t.Date,
                 [revenue |-> Amount(t),
                  transaction_count |-> old.transaction_count + 1,
                  unique_customers |-> old.unique_customers \cup {t.CustomerID}])

\* the grouping loop of daily_sales_trend
RECURSIVE TrendLoop(_)
TrendLoop(ts) ==
    IF ts = << >> THEN << >>
    ELSE LET trends == TrendLoop(SubSeq(ts, 1, Len(ts) - 1))
             t == ts[Len(ts)]
             old == IF HasKey(trends, t.Date) THEN Get(trends, t.Date)
                    ELSE [revenue |-> Zero, transaction_count |-> 0,
                          unique_customers |-> {}]
         IN  Put(trends, t.Date,
                 [revenue |-> FAdd(old.revenue, Amount(t)),
                  transaction_count |-> old.transaction_count + 1,
                  unique_customers |-> old.unique_customers \cup {t.CustomerID}])

daily_sales_trend(ts) ==
    LET trends == TrendLoop(ts)
        counted == [i \in 1..Len(trends) |->
                      <<trends[i][1],
                        [trends[i][2] EXCEPT !.unique_customers = Cardinality(@)]>>]
    IN  StableSort(counted, StrAscending([i \in 1..Len(counted) |-> counted[i][1]]))

\* the grouping loop of find_peak_sales_day
RECURSIVE DateStatsLoop(_)
DateStatsLoop(ts) ==
    IF ts = << >> THEN << >>
    ELSE LET date_stats == DateStatsLoop(SubSeq(ts, 1, Len(ts) - 1))
             t == ts[Len(ts)]
             old == IF HasKey(date_stats, t.Date) THEN Get(date_stats, t.Date)
                    ELSE [revenue |-> Zero, count |-> 0]
         IN  Put(date_stats, t.Date,
                 [revenue |-> FAdd(old.revenue, Amount(t)),
                  count |-> old.count + 1])

\* the loop over date_stats.items() up to item i: [peak_date, max_revenue]
RECURSIVE PeakLoop(_, _)
PeakLoop(date_stats, i) ==
    IF i = 0 THEN [peak_date |-> None, max_revenue |-> FromInt(-1)]
    ELSE LET acc == PeakLoop(date_stats, i - 1)
         IN  IF FLess(acc.max_revenue, date_stats[i][2].revenue)
             THEN [peak_date |-> Some(date_stats[i][1]),
                   max_revenue |-> date_stats[i][2].revenue]
             ELSE acc

\* bool(peak_date): None and "" are false
Truthy(o) == ~IsNone(o) /\ Val(o) # << >>

\* find_peak_sales_day(transactions): None, or <<date, revenue, count>>
find_peak_sales_day(ts) ==
    LET date_stats == DateStatsLoop(ts)
        acc == PeakLoop(date_stats, Len(date_stats))
    IN  IF Truthy(acc.peak_date)
        THEN Some(<<Val(acc.peak_date), acc.max_revenue,
                    Get(date_stats, Val(acc.peak_date)).count>>)
        ELSE None

\* the grouping loop of customer_analysis
RECURSIVE CustomerLoop(_)
CustomerLoop(ts) ==
    IF ts = << >> THEN << >>
    ELSE LET customer_stats == CustomerLoop(SubSeq(ts, 1, Len(ts) - 1))
             t == ts[Len(ts)]
             old == IF HasKey(customer_stats, t.CustomerID)
                    THEN Get(customer_stats, t.CustomerID)
                    ELSE [total_spent |-> Zero, transaction_count |-> 0,
                          avg_order_value |-> Zero, products_bought |-> {}]
         IN  Put(customer_stats, t.CustomerID,
                 [old EXCEPT !.total_spent = FAdd(@, Amount(t)),
                             !.transaction_count = @ + 1,
                             !.products_bought = @ \cup {t.ProductName}])

customer_analysis(ts) ==
    LET customer_stats == CustomerLoop(ts)
        done == [i \in 1..Len(customer_stats) |->
                   <<customer_stats[i][1],
                     [customer_stats[i][2] EXCEPT
                        !.avg_order_value =
                            FDiv(customer_stats[i][2].total_spent,
                                 FromInt(customer_stats[i][2].transaction_count)),
                        !.products_bought = SortedStrings(@)]>>]
    IN  StableSort(done, FloatDescending([i \in 1..Len(done) |-> done[i][2].total_spent]))

\* the grouping loop of top_selling_products and low_performing_products
RECURSIVE ProductLoop(_)
ProductLoop(ts) ==
    IF ts = << >> THEN << >>
    ELSE LET product_stats == ProductLoop(SubSeq(ts, 1, Len(ts) - 1))
             t == ts[Len(ts)]
             old == IF HasKey(product_stats, t.ProductName)
                    THEN Get(product_stats, t.ProductName)
                    ELSE [quantity |-> 0, revenue |-> Zero]
         IN  Put(product_stats, t.ProductName,
                 [quantity |-> old.quantity + t.Quantity,
                  revenue |-> FAdd(old.revenue, Amount(t))])

\* (name, stats["quantity"], stats["revenue"]) for each item
ProductTuples(items) ==
    [i \in 1..Len(items) |->
        <<items[i][1], items[i][2].quantity, items[i][2].revenue>>]

\* SortedProducts as sorted(..., key=quantity)[::-1]: ties come out reversed
SortedProductsReversed(product_stats) ==
    LET up == StableSort(product_stats,
                  IntAscending([i \in 1..Len(product_stats) |->
                                  product_stats[i][2].quantity]))
    IN  [i \in 1..Len(up) |-> up[Len(up) + 1 - i]]

\* sorted(product_stats.items(), key=quantity, reverse=True)
SortedProducts(product_stats) ==
    StableSort(product_stats,
               IntDescending([i \in 1..Len(product_stats) |->
                                product_stats[i][2].quantity]))

top_selling_products(ts, k) ==
    ProductTuples(Slice(SortedProducts(ProductLoop(ts)), k))

low_performing_products(ts, thr) ==
    LET low_performers == SelectSeq(ProductTuples(ProductLoop(ts)),
                                    LAMBDA x : x[2] < thr)
    IN  StableSort(low_performers,
                   IntAscending([i \in 1..Len(low_performers) |->
                                   low_performers[i][2]]))

\* the grouping loop of region_wise_sales
RECURSIVE RegionLoop(_)
RegionLoop(ts) ==
    IF ts = << >> THEN << >>
    ELSE LET region_stats == RegionLoop(SubSeq(ts, 1, Len(ts) - 1))
             t == ts[Len(ts)]
             old == IF HasKey(region_stats, t.Region) THEN Get(region_stats, t.Region)
                    ELSE [total_sales |-> Zero, transaction_count |-> 0]
         IN  Put(region_stats, t.Region,
                 [total_sales |-> FAdd(old.total_sales, Amount(t)),
                  transaction_count |-> old.transaction_count + 1])

\* RegionRaises with the division made before the loop over the regions
RegionRaisesWithoutRegions(region_stats, total_all_revenue) ==
    total_all_revenue = Zero

\* the division of the percentage loop raises when the total is zero
RegionRaises(region_stats, total_all_revenue) ==
    region_stats # << >> /\ total_all_revenue = Zero

\* region_wise_sales(transactions): [raises, value]; value is the dict
region_wise_sales(ts) ==
    LET total_all_revenue == calculate_total_revenue(ts)
        region_stats == RegionLoop(ts)
        with_percentage ==
            [i \in 1..Len(region_stats) |->
               <<region_stats[i][1],
                 [total_sales |-> region_stats[i][2].total_sales,
                  transaction_count |-> region_stats[i][2].transaction_count,
                  percentage |->
                      FMul(FDiv(region_stats[i][2].total_sales,
                                total_all_revenue), FromInt(100))]>>]
    IN  IF RegionRaises(region_stats, total_all_revenue)
        THEN [raises |-> Some("ZeroDivisionError"), value |-> None]
        ELSE [raises |-> None,
              value |-> Some(StableSort(with_percentage,
                  FloatDescending([i \in 1..Len(region_stats) |->
                                     region_stats[i][2].total_sales])))]

(***************************************************************************)
(* utils/data_processor.py: catalog mapping and enrichment                 *)
(***************************************************************************)
\* create_product_mapping keeping the first entry of an id, not the last
RECURSIVE create_product_mapping_first(_)
create_product_mapping_first(products) ==
    IF products = << >> THEN << >>
    ELSE LET mapping == create_product_mapping_first(SubSeq(products, 1, Len(products) - 1))
             p == products[Len(products)]
         IN  IF IsNone(p.id) \/ HasKey(mapping, Val(p.id)) THEN mapping
             ELSE Put(mapping, Val(p.id),
                      [title |-> p.title, category |-> p.category,
                       brand |-> p.brand, rating |-> p.rating])

\* create_product_mapping(api_products): the dict id -> info; p.get(key) is
\* None for a key the entry lacks
RECURSIVE create_product_mapping(_)
create_product_mapping(products) ==
    IF products = << >> THEN << >>
    ELSE LET mapping == create_product_mapping(SubSeq(products, 1, Len(products) - 1))
             p == products[Len(products)]
         IN  IF IsNone(p.id) THEN mapping
             ELSE Put(mapping, Val(p.id),
                      [title |-> p.title, category |-> p.category,
                       brand |-> p.brand, rating |-> p.rating])

\* the digits at the front of s: the greedy match of \d+ at its start
RECURSIVE DigitRun(_)
DigitRun(s) ==
    IF s # << >> /\ s[1] \in Digits THEN <<s[1]>> \o DigitRun(Tail(s)) ELSE << >>

\* re.search(r"(\d+)", s): the leftmost match, or None
RECURSIVE SearchDigits(_)
SearchDigits(s) ==
    IF s = << >> THEN None
    ELSE IF s[1] \in Digits THEN Some(DigitRun(s))
    ELSE SearchDigits(Tail(s))

\* _extract_numeric_product_id reading all the digits of the id, not the
\* first run of them
_extract_all_digits(product_id) ==
    LET digits == SelectSeq(product_id, LAMBDA c : c \in Digits)
    IN  IF digits = << >> THEN None ELSE Some(DecVal(digits))

\* _extract_numeric_product_id(product_id): an int or None
_extract_numeric_product_id(product_id) ==
    LET match == SearchDigits(product_id)
    IN  IF IsNone(match) THEN None ELSE Some(DecVal(Val(match)))

\* product_mapping.get(numeric_id); None is no key of the mapping
Lookup(mapping, numeric_id) ==
    IF ~IsNone(numeric_id) /\ HasKey(mapping, Val(numeric_id))
    THEN Some(Get(mapping, Val(numeric_id)))
    ELSE None

\* one iteration of the loop of enrich_sales_data: new_t.  An info dict of
\* the mapping has four keys, so "if product_info" tests that it was found.
EnrichOne(t, mapping) ==
    LET product_info == Lookup(mapping, _extract_numeric_product_id(t.ProductID))
    IN  IF ~IsNone(product_info)
        THEN t @@ [API_Category |-> Val(product_info).category,
                   API_Brand |-> Val(product_info).brand,
                   API_Rating |-> Val(product_info).rating,
                   API_Match |-> TRUE]
        ELSE t @@ [API_Category |-> None, API_Brand |-> None,
                   API_Rating |-> None, API_Match |-> FALSE]

\* enrich_sales_data keeping only the records the catalog matches
enrich_matched_only(ts, mapping) ==
    SelectSeq([i \in 1..Len(ts) |-> EnrichOne(ts[i], mapping)],
              LAMBDA t : t.API_Match)

\* enrich_sales_data(transactions, product_mapping): the list it returns
enrich_sales_data(ts, mapping) ==
    [i \in 1..Len(ts) |-> EnrichOne(ts[i], mapping)]

header_fields ==
    <<"TransactionID", "Date", "ProductID", "ProductName", "Quantity",
      "UnitPrice", "CustomerID", "Region", "API_Category", "API_Brand",
      "API_Rating", "API_Match">>

nullable_fields == {"API_Category", "API_Brand", "API_Rating"}

\* save_enriched_data(enriched): the file written, a header and one row per
\* record with None as "" (the text of the other values is not rendered)
save_enriched_data(enriched) ==
    <<header_fields>> \o
    [i \in 1..Len(enriched) |->
        [k \in 1..Len(header_fields) |->
            LET value == enriched[i][header_fields[k]]
            IN  IF header_fields[k] \in nullable_fields
                THEN (IF IsNone(value) THEN << >> ELSE Val(value))
                ELSE value]]

(***************************************************************************)
(* utils/data_processor.py: report                                         *)
(***************************************************************************)
ReportTopProducts == 5
ReportLowThreshold == 10
ReportTopCustomers == 5
ReportTopDays == 10
ReportLowShown == 5

NoData == <<"N", "o", " ", "d", "a", "t", "a">>

\* the values generate_sales_report computes and lays out
ReportMetrics(ts, enriched) ==
    LET total_revenue == calculate_total_revenue(ts)
        customer_stats == customer_analysis(ts)
        daily_trends == daily_sales_trend(ts)
        total_enriched == Len(enriched)
        matched_count == Cardinality({i \in 1..Len(enriched) : enriched[i].API_Match})
        dates == SortedStrings({ts[i].Date : i \in 1..Len(ts)})
    IN  [records_processed |-> Len(ts),
         total_revenue |-> total_revenue,
         avg_order_value |-> IF ts # << >>
                             THEN FDiv(total_revenue, FromInt(Len(ts))) ELSE 0,
         date_range |-> IF dates # << >>
                        THEN dates[1] \o <<" ", "t", "o", " ">> \o dates[Len(dates)]
                        ELSE NoData,
         region_stats |-> Val(region_wise_sales(ts).value),
         top_products |-> top_selling_products(ts, ReportTopProducts),
         top_customers |-> Slice(customer_stats, ReportTopCustomers),
         top_days |-> Slice(StableSort(daily_trends,
                              FloatDescending([i \in 1..Len(daily_trends) |->
                                                 daily_trends[i][2].revenue])),
                            ReportTopDays),
         peak_day |-> find_peak_sales_day(ts),
         low_products |-> Slice(low_performing_products(ts, ReportLowThreshold),
                                ReportLowShown),
         total_enriched |-> total_enriched,
         matched_count |-> matched_count,
         success_rate |-> IF total_enriched > 0
                          THEN FMul(Round(matched_count, total_enriched, 0),
                                    FromInt(100))
                          ELSE 0,
         unmatched_pids |-> SortedStrings({enriched[i].ProductID :
                              i \in {j \in 1..Len(enriched) : ~enriched[j].API_Match}})]

\* generate_sales_report(transactions, enriched_transactions): [raises,
\* value]; value is the report written.  The metrics are computed before
\* the file is opened, so an exception leaves no report.
generate_sales_report(ts, enriched) ==
    IF ~IsNone(region_wise_sales(ts).raises)
    THEN [raises |-> region_wise_sales(ts).raises, value |-> None]
    ELSE [raises |-> None, value |-> Some(ReportMetrics(ts, enriched))]

(***************************************************************************)
(* Inputs of the model.                                                    *)
(***************************************************************************)
\* all sequences over S of length at most k
SeqsUpTo(S, k) == UNION {[1..i -> S] : i \in 0..k}

\* "|".join(fields)
RECURSIVE Join(_)
Join(fields) ==
    IF Len(fields) = 1 THEN fields[1]
    ELSE fields[1] \o <<"|">> \o Join(Tail(fields))

\* the first line of a sales file
HeaderLine ==
    Join(<< <<"I", "D">>, <<"D">>, <<"P">>, <<"N">>, <<"Q">>, <<"U">>,
            <<"C">>, <<"R">> >>)

\* lines a sales file may hold after it
SampleLines ==
    { Join(<< <<"T", "1">>, <<"1">>, <<"P", "1">>, <<"P", "e", "n">>,
              <<"2">>, <<"3">>, <<"C", "1">>, <<"N">> >>),
      Join(<< <<"T", "2">>, <<"2">>, <<"P", "7">>, <<"I", ",", "n", "k">>,
              <<" ", "1">>, <<"1", ",", "0">>, <<"C", "2">>, <<"S">> >>),
      Join(<< <<"T", "3">>, <<"1">>, <<"P", "1">>, <<"P", "e", "n">>,
              <<"2">>, <<"3">>, <<"C", "1">> >>),
      Join(<< <<"T", "4">>, <<"1">>, <<"P", "1">>, <<"P", "e", "n">>,
              <<"2", ".", "0">>, <<"3">>, <<"C", "1">>, <<"N">> >>),
      Join(<< <<"T", "5">>, <<"1">>, <<"P", "1">>, <<"P", "e", "n">>,
              <<"2">>, <<"x">>, <<"C", "1">>, <<"N">> >>),
      Join(<< <<"T", "6">>, <<"2">>, <<"P", "1">>, <<"P", "e", "n">>,
              <<"0">>, <<"2", ".", "5">>, <<"C", "1">>, <<"N">> >>) }

\* a line whose unit price is the word nan
NaNLine ==
    Join(<< <<"T", "7">>, <<"1">>, <<"P", "1">>, <<"P", "e", "n">>,
            <<"1">>, <<" ", "N", "a", "N">>, <<"C", "1">>, <<"N">> >>)

\* the input file: missing, empty, blank, a header and the nan line, or a
\* header and up to MaxFileLines lines
Files ==
    {[exists |-> FALSE, utf8 |-> FALSE, lines |-> << >>],
     [exists |-> TRUE, utf8 |-> TRUE, lines |-> << >>],
     [exists |-> TRUE, utf8 |-> TRUE, lines |-> << <<" ">>, << >> >>],
     [exists |-> TRUE, utf8 |-> TRUE, lines |-> <<HeaderLine, NaNLine>>]} \cup
    {[exists |-> TRUE, utf8 |-> u, lines |-> <<HeaderLine>> \o l] :
        u \in BOOLEAN, l \in SeqsUpTo(SampleLines, MaxFileLines)}

CatalogEntry(id, category, brand) ==
    [id |-> id, title |-> Some(<<"t">>), category |-> category,
     brand |-> brand, rating |-> Some(Round(9, 2, 0))]

\* entries the catalog may supply
CatalogEntries ==
    { CatalogEntry(Some(1), Some(<<"a">>), Some(<<"x">>)),
      CatalogEntry(Some(1), Some(<<"b">>), None),
      CatalogEntry(None, Some(<<"c">>), Some(<<"y">>)),
      CatalogEntry(Some(7), None, Some(<<"z">>)) }

\* what fetch_all_products may return in a run of main: [] when the request
\* fails, else the products of the response
FetchResponses ==
    { << >>,
      << CatalogEntry(Some(1), Some(<<"a">>), Some(<<"x">>)),
         CatalogEntry(None, Some(<<"c">>), Some(<<"y">>)) >> }

Unset == << >>

(***************************************************************************)
(* main.py: main()                                                         *)
(***************************************************************************)
Init ==
    /\ pc = "read"
    /\ outcome = "running"
    /\ file \in Files
    /\ raw_lines = Unset
    /\ transactions = Unset
    /\ valid_temp = Unset
    /\ summary_temp = Unset
    /\ valid_transactions = Unset
    /\ invalid_count = 0
    /\ summary = Unset
    /\ api_products = Unset
    /\ product_mapping = Unset
    /\ enriched_transactions = Unset
    /\ enriched_file = None
    /\ report_file = None
    /\ region = None
    /\ min_amount = None
    /\ max_amount = None
    /\ n = 0
    /\ threshold = 0
    /\ ret = Unset

\* step 1: raw_lines = read_sales_data(data_file)
ReadSalesData ==
    /\ pc = "read"
    /\ raw_lines' = read_sales_data(file)
    /\ pc' = "parse"
    /\ UNCHANGED <<outcome, file, transactions, valid_temp, summary_temp,
                   valid_transactions, invalid_count, summary, api_products,
                   product_mapping, enriched_transactions, enriched_file,
                   report_file, region, min_amount, max_amount, n, threshold, ret>>

\* step 2: transactions = parse_transactions(raw_lines)
ParseTransactions ==
    /\ pc = "parse"
    /\ transactions' = parse_transactions(raw_lines)
    /\ pc' = "filter_options"
    /\ UNCHANGED <<outcome, file, raw_lines, valid_temp, summary_temp,
                   valid_transactions, invalid_count, summary, api_products,
                   product_mapping, enriched_transactions, enriched_file,
                   report_file, region, min_amount, max_amount, n, threshold, ret>>

\* step 3: valid_temp, _, summary_temp = validate_and_filter(transactions),
\* then min(amounts), max(amounts), which raise ValueError on an empty list
AnalyzeFilterOptions ==
    /\ pc = "filter_options"
    /\ LET r == validate_and_filter(transactions, None, None, None)
       IN  /\ valid_temp' = r[1]
           /\ summary_temp' = r[3]
           /\ IF r[1] = << >>
              THEN pc' = "done" /\ outcome' = "Exception"
              ELSE pc' = "validate" /\ outcome' = outcome
    /\ UNCHANGED <<file, raw_lines, transactions,
                   valid_transactions, invalid_count, summary, api_products,
                   product_mapping, enriched_transactions, enriched_file,
                   report_file, region, min_amount, max_amount, n, threshold, ret>>

\* step 4: validate_and_filter(filtered_transactions); filtered_transactions
\* is valid_temp whatever the user answers
ValidateTransactions ==
    /\ pc = "validate"
    /\ LET r == validate_and_filter(valid_temp, None, None, None)
       IN  /\ valid_transactions' = r[1]
           /\ invalid_count' = r[2]
           /\ summary' = r[3]
    /\ pc' = "analyze"
    /\ UNCHANGED <<outcome, file, raw_lines, transactions, valid_temp,
                   summary_temp, api_products,
                   product_mapping, enriched_transactions, enriched_file,
                   report_file, region, min_amount, max_amount, n, threshold, ret>>

\* step 5: _ = calculate_total_revenue(valid_transactions)
AnalyzeData ==
    /\ pc = "analyze"
    /\ pc' = "fetch"
    /\ UNCHANGED <<outcome, file, raw_lines, transactions, valid_temp,
                   summary_temp, valid_transactions, invalid_count, summary,
                   api_products, product_mapping, enriched_transactions,
                   enriched_file, report_file, region, min_amount, max_amount,
                   n, threshold, ret>>

\* step 6: api_products = fetch_all_products()
FetchProducts ==
    /\ pc = "fetch"
    /\ \E products \in FetchResponses : api_products' = products
    /\ pc' = "enrich"
    /\ UNCHANGED <<outcome, file, raw_lines, transactions, valid_temp,
                   summary_temp, valid_transactions, invalid_count, summary,
                   product_mapping, enriched_transactions,
                   enriched_file, report_file, region, min_amount, max_amount,
                   n, threshold, ret>>

\* step 7: create_product_mapping, enrich_sales_data (which saves the
\* enriched file), then matched / len(enriched_transactions)
EnrichData ==
    /\ pc = "enrich"
    /\ LET mapping == create_product_mapping(api_products)
           enriched == enrich_sales_data(valid_transactions, mapping)
       IN  /\ product_mapping' = mapping
           /\ enriched_transactions' = enriched
           /\ enriched_file' = Some(save_enriched_data(enriched))
           /\ IF enriched = << >>
              THEN pc' = "done" /\ outcome' = "Exception"
              ELSE pc' = "report" /\ outcome' = outcome
    /\ UNCHANGED <<file, raw_lines, transactions, valid_temp,
                   summary_temp, valid_transactions, invalid_count, summary,
                   api_products, report_file, region, min_amount, max_amount,
                   n, threshold, ret>>

\* steps 9 and 10: generate_sales_report(valid_transactions,
\* enriched_transactions) and the end of the run
GenerateReport ==
    /\ pc = "report"
    /\ LET r == generate_sales_report(valid_transactions, enriched_transactions)
       IN  IF ~IsNone(r.raises)
           THEN report_file' = report_file /\ outcome' = "Exception"
           ELSE report_file' = r.value /\ outcome' = "complete"
    /\ pc' = "done"
    /\ UNCHANGED <<file, raw_lines, transactions, valid_temp,
                   summary_temp, valid_transactions, invalid_count, summary,
                   api_products, product_mapping, enriched_transactions,
                   enriched_file, region, min_amount, max_amount,
                   n, threshold, ret>>

Next ==
    \/ ReadSalesData
    \/ ParseTransactions
    \/ AnalyzeFilterOptions
    \/ ValidateTransactions
    \/ AnalyzeData
    \/ FetchProducts
    \/ EnrichData
    \/ GenerateReport

Spec == Init /\ [][Next]_vars

(***************************************************************************)
(* Claims about a run of main().                                           *)
(***************************************************************************)
\* a line the parser drops: not exactly 8 fields, or a quantity or a unit
\* price that is not a number
Malformed(line) ==
    \/ Len(Split(line, "|")) # 8
    \/ IsNone(ParseInt(Remove(Split(line, "|")[5], ",")))
    \/ IsNone(ParseFloat(Remove(Split(line, "|")[6], ",")))

DroppedCount(lines) == Cardinality({i \in 1..Len(lines) : Malformed(lines[i])})

Validated == pc \notin {"read", "parse", "filter_options"}

\* C1: after parse_transactions and validate_and_filter without filters,
\* the valid records, the invalid count and the lines the parser dropped add
\* up to the raw lines, and a dropped line is in neither count
C1_LinesAccounted ==
    Validated =>
        /\ Len(valid_temp) + summary_temp.invalid + DroppedCount(raw_lines)
              = Len(raw_lines)
        /\ Len(valid_temp) + summary_temp.invalid = Len(transactions)
        /\ Len(transactions) = Len(raw_lines) - DroppedCount(raw_lines)

\* a run with a valid record, an invalid record and a dropped line
C1_Witness ==
    /\ pc = "validate"
    /\ Len(valid_temp) >= 1
    /\ summary_temp.invalid >= 1
    /\ DroppedCount(raw_lines) >= 1

\* C10: a missing input file reaches the caller of read_sales_data as a
\* signal that differs from an empty line list, and the run of main ends in
\* its file-not-found handler
C10_MissingFileSurfaced ==
    (~file.exists /\ pc # "read") =>
        /\ raw_lines # << >>
        /\ pc = "done" => outcome = "FileNotFoundError"

(***************************************************************************)
(* Calls of validate_and_filter.                                           *)
(***************************************************************************)
Rec(tid, date, pid, name, qty, price, cid, reg) ==
    [TransactionID |-> tid, Date |-> date, ProductID |-> pid,
     ProductName |-> name, Quantity |-> qty, UnitPrice |-> price,
     CustomerID |-> cid, Region |-> reg]

Pen == <<"P", "e", "n">>

\* records validate_and_filter may be given
ValidateRecords ==
    { Rec(<<"T", "1">>, <<"1">>, <<"P", "1">>, Pen, 2, FromInt(3), <<"C", "1">>, <<"N">>),
      Rec(<<"T", "2">>, <<"1">>, <<"P", "1">>, Pen, 1, FromInt(2), <<"C", "1">>, <<"S">>),
      Rec(<<"T", "3">>, <<"1">>, <<"P", "1">>, Pen, 2, FromInt(5), <<"C", "1">>, <<"N">>),
      Rec(<<"T", "4">>, <<"1">>, <<"P", "1">>, Pen, 0, FromInt(3), <<"C", "1">>, <<"N">>),
      Rec(<<"T", "5">>, <<"1">>, <<"P", "1">>, Pen, 2, FromInt(-3), <<"C", "1">>, <<"N">>),
      Rec(<< >>, <<"1">>, <<"P", "1">>, Pen, 2, FromInt(3), <<"C", "1">>, <<"N">>),
      Rec(<<"X", "7">>, <<"1">>, <<"P", "1">>, Pen, 2, FromInt(3), <<"C", "1">>, <<"N">>),
      Rec(<<"T", "8">>, <<"1">>, <<"Q", "1">>, Pen, 2, FromInt(3), <<"C", "1">>, <<"N">>),
      Rec(<<"T", "9">>, <<"1">>, <<"P", "1">>, Pen, 2, FromInt(3), <<"D", "1">>, <<"N">>),
      Rec(<<"T", "0">>, <<"1">>, <<"P", "1">>, Pen, 2, FromInt(3), <<"C", "1">>, << >>),
      Rec(<<"T", "6">>, <<"1">>, <<"P", "1">>, Pen, 1, NaN, <<"C", "1">>, <<"N">>) }

RegionArgs == {None, Some(<<"N">>), Some(<<"S">>)}

MinAmountArgs == {None, Some(FromInt(6))}

MaxAmountArgs == {None, Some(FromInt(6))}

\* the state before a call of a library function on the records ts
Idle(ts) ==
    /\ pc = "idle"
    /\ outcome = "running"
    /\ file = [exists |-> FALSE, utf8 |-> FALSE, lines |-> << >>]
    /\ raw_lines = Unset
    /\ transactions = ts
    /\ valid_temp = Unset
    /\ summary_temp = Unset
    /\ valid_transactions = Unset
    /\ invalid_count = 0
    /\ summary = Unset
    /\ api_products = Unset
    /\ product_mapping = Unset
    /\ enriched_transactions = Unset
    /\ enriched_file = None
    /\ report_file = None
    /\ region = None
    /\ min_amount = None
    /\ max_amount = None
    /\ n = 0
    /\ threshold = 0
    /\ ret = Unset

InitValidate == \E ts \in SeqsUpTo(ValidateRecords, MaxValidateRecs) : Idle(ts)

\* validate_and_filter(transactions, region, min_amount, max_amount)
CallValidate ==
    /\ pc = "idle"
    /\ \E reg \in RegionArgs, lo \in MinAmountArgs, hi \in MaxAmountArgs :
          /\ region' = reg
          /\ min_amount' = lo
          /\ max_amount' = hi
          /\ ret' = validate_and_filter(transactions, reg, lo, hi)
    /\ pc' = "validate_and_filter"
    /\ UNCHANGED <<outcome, file, raw_lines, transactions, valid_temp,
                   summary_temp, valid_transactions, invalid_count, summary,
                   api_products, product_mapping, enriched_transactions,
                   enriched_file, report_file, n, threshold>>

\* validate_and_filter again, on the list it returned, with the same filters
CallValidateAgain ==
    /\ pc = "validate_and_filter"
    /\ transactions' = ret[1]
    /\ ret' = validate_and_filter(ret[1], region, min_amount, max_amount)
    /\ pc' = "validate_and_filter_again"
    /\ UNCHANGED <<outcome, file, raw_lines, valid_temp,
                   summary_temp, valid_transactions, invalid_count, summary,
                   api_products, product_mapping, enriched_transactions,
                   enriched_file, report_file, region, min_amount, max_amount,
                   n, threshold>>

NextValidate == CallValidate \/ CallValidateAgain

SpecValidate == InitValidate /\ [][NextValidate]_vars

\* C2: validate_and_filter given the list it returned, with the same
\* filters, returns that list in the same order, counts no invalid record
\* and filters nothing
C2_Idempotent ==
    pc = "validate_and_filter_again" =>
        /\ ret[1] = transactions
        /\ ret[2] = 0
        /\ ret[3].invalid = 0
        /\ ret[3].filtered_by_region = 0
        /\ ret[3].filtered_by_amount = 0

\* a second call under all three filters on a list of two records
C2_Witness ==
    /\ pc = "validate_and_filter_again"
    /\ ~IsNone(region) /\ ~IsNone(min_amount) /\ ~IsNone(max_amount)
    /\ Len(transactions) >= 2
    /\ ret[1] = transactions

NoFilters == IsNone(region) /\ IsNone(min_amount) /\ IsNone(max_amount)

\* the five rules as stated: required fields non-empty, quantity > 0 and
\* unit price > 0, and the three prefixes
AllRulesHold(t) ==
    /\ \A field \in {"TransactionID", "ProductID", "CustomerID", "Region"} :
          t[field] # << >>
    /\ t.Quantity > 0
    /\ FLess(Zero, t.UnitPrice)
    /\ t.TransactionID[1] = "T"
    /\ t.ProductID[1] = "P"
    /\ t.CustomerID[1] = "C"

\* C11: validate_and_filter keeps a record as valid exactly when all five
\* rules hold, in input order, and counts every other record invalid once,
\* so without filters len(valid) + invalid_count = len(input)
C11_ValidExactlyByRules ==
    pc = "validate_and_filter" =>
        /\ ret[2] = Cardinality({i \in 1..Len(transactions) :
                                   ~AllRulesHold(transactions[i])})
        /\ NoFilters =>
              /\ ret[1] = SelectSeq(transactions, AllRulesHold)
              /\ Len(ret[1]) + ret[2] = Len(transactions)

\* the valid records of the input, before the filters
ValidOf(ts) == SelectSeq(ts, IsValidTransaction)

\* the records of ts in the requested region, all of them when none is
\* requested
InRegion(ts) ==
    IF IsNone(region) THEN ts ELSE SelectSeq(ts, LAMBDA t : t.Region = Val(region))

\* amount < min_amount or amount > max_amount, for the bounds provided
OutOfRange(t) ==
    \/ ~IsNone(min_amount) /\ FLess(Amount(t), Val(min_amount))
    \/ ~IsNone(max_amount) /\ FLess(Val(max_amount), Amount(t))

\* C12: the region filter comes before the amount filter: filtered_by_region
\* counts the valid records of another region, filtered_by_amount counts the
\* records that passed the region filter and lie outside the amount bounds, a
\* record whose amount equals a bound is retained, and a filter not provided
\* removes nothing and reports 0
C12_RegionThenAmount ==
    pc = "validate_and_filter" =>
        LET valid == ValidOf(transactions)
            by_region == InRegion(valid)
        IN  /\ ret[3].filtered_by_region = Len(valid) - Len(by_region)
            /\ ret[3].filtered_by_amount = Len(SelectSeq(by_region, OutOfRange))
            /\ ret[1] = SelectSeq(by_region, LAMBDA t : ~OutOfRange(t))
            /\ \A i \in 1..Len(by_region) :
                  (\/ ~IsNone(min_amount) /\ Amount(by_region[i]) = Val(min_amount)
                   \/ ~IsNone(max_amount) /\ Amount(by_region[i]) = Val(max_amount))
                  /\ ~OutOfRange(by_region[i])
                  => \E j \in 1..Len(ret[1]) : ret[1][j] = by_region[i]
            /\ IsNone(region) => ret[3].filtered_by_region = 0
            /\ (IsNone(min_amount) /\ IsNone(max_amount)) =>
                  ret[3].filtered_by_amount = 0

\* a call under a region and both bounds: a valid record of another region
\* that also lies below min_amount, counted by the region filter alone; a
\* record removed by the amount filter; a record at max_amount retained
C12_Witness ==
    /\ pc = "validate_and_filter"
    /\ ~IsNone(region) /\ ~IsNone(min_amount) /\ ~IsNone(max_amount)
    /\ \E i \in 1..Len(transactions) :
          /\ IsValidTransaction(transactions[i])
          /\ transactions[i].Region # Val(region)
          /\ FLess(Amount(transactions[i]), Val(min_amount))
    /\ ret[3].filtered_by_region = 1
    /\ ret[3].filtered_by_amount = 1
    /\ \E j \in 1..Len(ret[1]) : Amount(ret[1][j]) = Val(max_amount)

\* C13: the summary satisfies total_input = invalid + filtered_by_region +
\* filtered_by_amount + final_count, total_input is the length of the input,
\* final_count the length of the returned list, invalid the returned
\* invalid_count, and no count is negative
C13_SummaryIdentity ==
    pc \in {"validate_and_filter", "validate_and_filter_again"} =>
        /\ ret[3].total_input = ret[3].invalid + ret[3].filtered_by_region
                                   + ret[3].filtered_by_amount + ret[3].final_count
        /\ ret[3].total_input = Len(transactions)
        /\ ret[3].final_count = Len(ret[1])
        /\ ret[3].invalid = ret[2]
        /\ \A k \in {"total_input", "invalid", "filtered_by_region",
                       "filtered_by_amount", "final_count"} : ret[3][k] >= 0

\* a call whose summary has an invalid record, a record removed by each
\* filter, and none left
C13_Witness ==
    /\ pc = "validate_and_filter"
    /\ ret[3].invalid = 1
    /\ ret[3].filtered_by_region = 1
    /\ ret[3].filtered_by_amount = 1
    /\ ret[3].total_input = 3

(***************************************************************************)
(* Calls of the analytics functions and of generate_sales_report.          *)
(***************************************************************************)
\* records an analytics function may be given; the validator checks no Date
AnalyticsRecords ==
    { Rec(<<"T", "1">>, <<"1">>, <<"P", "1">>, <<"A">>, 1, FromInt(5), <<"C", "1">>, <<"N">>),
      Rec(<<"T", "2">>, <<"1", "0">>, <<"P", "2">>, <<"B">>, 1, FromInt(4), <<"C", "2">>, <<"S">>),
      Rec(<<"T", "3">>, <<"1">>, <<"P", "3">>, <<"C">>, 1, FromInt(1), <<"C", "1">>, <<"N">>),
      Rec(<<"T", "4">>, << >>, <<"P", "2">>, <<"B">>, 2, FromInt(3), <<"C", "2">>, <<"N">>),
      Rec(<<"T", "5">>, <<"2">>, <<"P", "1">>, <<"A">>, 0, FromInt(3), <<"C", "1">>, <<"S">>) }

ThresholdArgs == {2, ReportLowThreshold}

InitAnalytics == \E ts \in SeqsUpTo(AnalyticsRecords, MaxAnalyticsRecs) : Idle(ts)

\* the call of a function of the records alone
Returns(name, value) ==
    /\ pc = "idle"
    /\ pc' = name
    /\ ret' = value
    /\ UNCHANGED <<outcome, file, raw_lines, transactions, valid_temp,
                   summary_temp, valid_transactions, invalid_count, summary,
                   api_products, product_mapping, enriched_transactions,
                   enriched_file, report_file, region, min_amount, max_amount,
                   n, threshold>>

CallTotalRevenue ==
    Returns("calculate_total_revenue", calculate_total_revenue(transactions))

CallDailyTrend == Returns("daily_sales_trend", daily_sales_trend(transactions))

CallPeakDay == Returns("find_peak_sales_day", find_peak_sales_day(transactions))

CallCustomerAnalysis == Returns("customer_analysis", customer_analysis(transactions))

CallRegionWise == Returns("region_wise_sales", region_wise_sales(transactions))

\* top_selling_products(transactions, n)
CallTopSelling ==
    /\ pc = "idle"
    /\ \E k \in 0..MaxN :
          /\ n' = k
          /\ ret' = top_selling_products(transactions, k)
    /\ pc' = "top_selling_products"
    /\ UNCHANGED <<outcome, file, raw_lines, transactions, valid_temp,
                   summary_temp, valid_transactions, invalid_count, summary,
                   api_products, product_mapping, enriched_transactions,
                   enriched_file, report_file, region, min_amount, max_amount,
                   threshold>>

\* low_performing_products(transactions, threshold)
CallLowPerforming ==
    /\ pc = "idle"
    /\ \E thr \in ThresholdArgs :
          /\ threshold' = thr
          /\ ret' = low_performing_products(transactions, thr)
    /\ pc' = "low_performing_products"
    /\ UNCHANGED <<outcome, file, raw_lines, transactions, valid_temp,
                   summary_temp, valid_transactions, invalid_count, summary,
                   api_products, product_mapping, enriched_transactions,
                   enriched_file, report_file, region, min_amount, max_amount,
                   n>>

\* generate_sales_report(transactions, enriched_transactions), the enriched
\* records being those of the same transactions under some catalog
CallGenerateReport ==
    /\ pc = "idle"
    /\ \E products \in FetchResponses :
          LET mapping == create_product_mapping(products)
              enriched == enrich_sales_data(transactions, mapping)
              r == generate_sales_report(transactions, enriched)
          IN  /\ api_products' = products
              /\ product_mapping' = mapping
              /\ enriched_transactions' = enriched
              /\ ret' = r
              /\ report_file' = IF IsNone(r.raises) THEN r.value ELSE report_file
    /\ pc' = "generate_sales_report"
    /\ UNCHANGED <<outcome, file, raw_lines, transactions, valid_temp,
                   summary_temp, valid_transactions, invalid_count, summary,
                   enriched_file, region, min_amount, max_amount, n, threshold>>

NextAnalytics ==
    \/ CallTotalRevenue
    \/ CallDailyTrend
    \/ CallPeakDay
    \/ CallCustomerAnalysis
    \/ CallTopSelling
    \/ CallLowPerforming
    \/ CallRegionWise
    \/ CallGenerateReport

SpecAnalytics == InitAnalytics /\ [][NextAnalytics]_vars

(***************************************************************************)
(* Claims about the analytics functions.                                   *)
(***************************************************************************)
Indices(ts) == 1..Len(ts)

AllValid(ts) == \A i \in Indices(ts) : IsValidTransaction(ts[i])

\* the records of ts with the date d, in order
OnDate(ts, d) == SelectSeq(ts, LAMBDA t : t.Date = d)

DatesOf(ts) == {ts[i].Date : i \in Indices(ts)}

\* where the date d first appears in ts
FirstOnDate(ts, d) == CHOOSE i \in Indices(ts) :
    ts[i].Date = d /\ \A j \in 1..(i - 1) : ts[j].Date # d

\* the date of greatest accumulated revenue, the first encountered of several
IsPeakDate(ts, d) ==
    /\ d \in DatesOf(ts)
    /\ \A o \in DatesOf(ts) :
          /\ FLeq(calculate_total_revenue(OnDate(ts, o)),
                  calculate_total_revenue(OnDate(ts, d)))
          /\ calculate_total_revenue(OnDate(ts, o)) =
                calculate_total_revenue(OnDate(ts, d))
                => FirstOnDate(ts, d) <= FirstOnDate(ts, o)

\* C5: region_wise_sales does not raise when the total revenue of its input
\* is zero, and then every region present has percentage 0
C5_ZeroTotalHandled ==
    (pc = "region_wise_sales" /\ calculate_total_revenue(transactions) = Zero) =>
        /\ IsNone(ret.raises)
        /\ \A i \in 1..Len(Val(ret.value)) :
              Val(ret.value)[i][2].percentage = Zero

\* C6: find_peak_sales_day returns None only for empty input; for validated
\* records it returns the date of greatest accumulated revenue, the first
\* encountered of several, with the revenue and transaction count of that date
C6_PeakDay ==
    (pc = "find_peak_sales_day" /\ AllValid(transactions)) =>
        IF transactions = << >> THEN IsNone(ret)
        ELSE /\ ~IsNone(ret)
             /\ IsPeakDate(transactions, Val(ret)[1])
             /\ Val(ret)[2] =
                   calculate_total_revenue(OnDate(transactions, Val(ret)[1]))
             /\ Val(ret)[3] = Len(OnDate(transactions, Val(ret)[1]))

\* C7: on an empty record set every analytics function returns its empty
\* result, region_wise_sales and generate_sales_report do not raise, and the
\* report has average order value 0, date range "No data" and success rate 0
C7_EmptyInputDefined ==
    transactions = << >> =>
        /\ pc = "calculate_total_revenue" => ret = Zero
        /\ pc = "daily_sales_trend" => ret = << >>
        /\ pc = "find_peak_sales_day" => IsNone(ret)
        /\ pc = "customer_analysis" => ret = << >>
        /\ pc = "top_selling_products" => ret = << >>
        /\ pc = "low_performing_products" => ret = << >>
        /\ pc = "region_wise_sales" =>
              IsNone(ret.raises) /\ ret.value = Some(<< >>)
        /\ pc = "generate_sales_report" =>
              /\ IsNone(ret.raises)
              /\ Val(ret.value).avg_order_value = 0
              /\ Val(ret.value).date_range = NoData
              /\ Val(ret.value).success_rate = 0
              /\ Val(ret.value).total_revenue = Zero
              /\ Val(ret.value).region_stats = << >>
              /\ IsNone(Val(ret.value).peak_day)

\* the report of an empty record set
C7_Witness ==
    /\ pc = "generate_sales_report"
    /\ transactions = << >>
    /\ report_file = ret.value
    /\ ~IsNone(report_file)

\* the float sum of the revenues of a trend, in the order of its dates
RECURSIVE TrendRevenue(_)
TrendRevenue(trend) ==
    IF trend = << >> THEN Zero
    ELSE FAdd(TrendRevenue(SubSeq(trend, 1, Len(trend) - 1)),
              trend[Len(trend)][2].revenue)

RECURSIVE TrendCount(_)
TrendCount(trend) ==
    IF trend = << >> THEN 0
    ELSE TrendCount(Tail(trend)) + trend[1][2].transaction_count

\* the dates of a trend ascend, so each appears once
DatesAscend(trend) ==
    \A i \in 1..(Len(trend) - 1) : StrLess(trend[i][1], trend[i + 1][1])

\* C8 as claimed: the revenues of daily_sales_trend summed over the dates
\* equal calculate_total_revenue, the transaction counts sum to the number of
\* records, and the dates are ascending, each once
C8_TrendSumsEqual ==
    pc = "daily_sales_trend" =>
        /\ TrendRevenue(ret) = calculate_total_revenue(transactions)
        /\ TrendCount(ret) = Len(transactions)
        /\ DatesAscend(ret)

\* the exponent of the lowest set bit of a float a # 0
RECURSIVE UnitExponent(_)
UnitExponent(a) ==
    IF a.m % 2 = 0 THEN UnitExponent([m |-> a.m \div 2, e |-> a.e + 1]) ELSE a.e

\* the least such exponent among the nonzero amounts of ts: every amount is
\* a whole multiple of 2^MinExponent(ts)
MinExponent(ts) ==
    LET units == {UnitExponent(Amount(ts[i])) :
                     i \in {j \in 1..Len(ts) : Amount(ts[j]) # Zero}}
    IN  IF units = {} THEN 0 ELSE CHOOSE e \in units : \A o \in units : e <= o

Abs(x) == IF x < 0 THEN -x ELSE x

\* the float a, a whole multiple of 2^e, in units of 2^e
Units(a, e) ==
    IF a.e >= e THEN a.m * Pow2(a.e - e) ELSE a.m \div Pow2(e - a.e)

\* the sum of the absolute amounts of ts, in units of 2^e
RECURSIVE AbsTotal(_, _)
AbsTotal(ts, e) ==
    IF ts = << >> THEN 0
    ELSE Abs(Units(Amount(ts[1]), e)) + AbsTotal(Tail(ts), e)

\* no addition of amounts of ts rounds, in any order: every partial sum is a
\* multiple of the common unit that fits the significand
SumsExact(ts) == AbsTotal(ts, MinExponent(ts)) < Pow2(MantissaBits)

\* C8 as amended: the counts and the order as claimed; the revenues sum to
\* calculate_total_revenue when no addition rounds
C8_TrendSumsEqualWhenExact ==
    pc = "daily_sales_trend" =>
        /\ SumsExact(transactions) =>
              TrendRevenue(ret) = calculate_total_revenue(transactions)
        /\ TrendCount(ret) = Len(transactions)
        /\ DatesAscend(ret)

\* a trend of two dates over three records of nonzero amounts whose sums
\* are exact
C8_Witness ==
    /\ pc = "daily_sales_trend"
    /\ Len(transactions) = 3
    /\ Len(ret) = 2
    /\ SumsExact(transactions)
    /\ \A i \in 1..Len(transactions) : Amount(transactions[i]) # Zero

NamesOf(ts) == {ts[i].ProductName : i \in Indices(ts)}

RECURSIVE QuantityOf(_, _)
QuantityOf(ts, name) ==
    IF ts = << >> THEN 0
    ELSE QuantityOf(Tail(ts), name) +
         (IF ts[1].ProductName = name THEN ts[1].Quantity ELSE 0)

FirstOfName(ts, name) == CHOOSE i \in Indices(ts) :
    ts[i].ProductName = name /\ \A j \in 1..(i - 1) : ts[j].ProductName # name

\* C9: top_selling_products returns min(n, distinct names) products with
\* their total quantities, in non-increasing order of quantity, equal
\* quantities in order of first appearance, no omitted product above a
\* returned one
C9_TopSelling ==
    pc = "top_selling_products" =>
        /\ Len(ret) = Min(n, Cardinality(NamesOf(transactions)))
        /\ \A i \in 1..Len(ret) :
              /\ ret[i][1] \in NamesOf(transactions)
              /\ ret[i][2] = QuantityOf(transactions, ret[i][1])
        /\ \A i, j \in 1..Len(ret) :
              i < j =>
                 /\ ret[i][1] # ret[j][1]
                 /\ ret[i][2] >= ret[j][2]
                 /\ ret[i][2] = ret[j][2] =>
                       FirstOfName(transactions, ret[i][1])
                          < FirstOfName(transactions, ret[j][1])
        /\ \A name \in NamesOf(transactions) \ {ret[i][1] : i \in 1..Len(ret)} :
              \A i \in 1..Len(ret) :
                 QuantityOf(transactions, name) <= ret[i][2]

\* two products tied in quantity, both returned, a third product omitted
C9_Witness ==
    /\ pc = "top_selling_products"
    /\ Len(ret) = 2
    /\ ret[1][2] = ret[2][2]
    /\ Cardinality(NamesOf(transactions)) = 3

(***************************************************************************)
(* Calls of create_product_mapping and enrich_sales_data.                  *)
(***************************************************************************)
EnrichRec(tid, pid) ==
    Rec(tid, <<"1">>, pid, Pen, 1, FromInt(2), <<"C", "1">>, <<"N">>)

\* records enrich_sales_data may be given
EnrichRecords ==
    { EnrichRec(<<"T", "1">>, <<"P", "1">>),
      EnrichRec(<<"T", "2">>, <<"P", "X">>),
      EnrichRec(<<"T", "3">>, <<"P", "0", "7">>),
      EnrichRec(<<"T", "4">>, <<"P", "a", "1", "b", "7">>),
      EnrichRec(<<"T", "5">>, <<"P", "2">>) }

InitEnrich ==
    /\ pc = "idle"
    /\ outcome = "running"
    /\ file = [exists |-> FALSE, utf8 |-> FALSE, lines |-> << >>]
    /\ raw_lines = Unset
    /\ transactions \in SeqsUpTo(EnrichRecords, MaxEnrichRecs)
    /\ valid_temp = Unset
    /\ summary_temp = Unset
    /\ valid_transactions = Unset
    /\ invalid_count = 0
    /\ summary = Unset
    /\ api_products \in SeqsUpTo(CatalogEntries, MaxCatalog)
    /\ product_mapping = Unset
    /\ enriched_transactions = Unset
    /\ enriched_file = None
    /\ report_file = None
    /\ region = None
    /\ min_amount = None
    /\ max_amount = None
    /\ n = 0
    /\ threshold = 0
    /\ ret = Unset

\* product_mapping = create_product_mapping(api_products)
CallCreateProductMapping ==
    /\ pc = "idle"
    /\ product_mapping' = create_product_mapping(api_products)
    /\ ret' = create_product_mapping(api_products)
    /\ pc' = "create_product_mapping"
    /\ UNCHANGED <<outcome, file, raw_lines, transactions, valid_temp,
                   summary_temp, valid_transactions, invalid_count, summary,
                   api_products, enriched_transactions, enriched_file,
                   report_file, region, min_amount, max_amount, n, threshold>>

\* enrich_sales_data(transactions, product_mapping), which saves the file
CallEnrich ==
    /\ pc = "create_product_mapping"
    /\ enriched_transactions' = enrich_sales_data(transactions, product_mapping)
    /\ enriched_file' =
          Some(save_enriched_data(enrich_sales_data(transactions, product_mapping)))
    /\ ret' = enrich_sales_data(transactions, product_mapping)
    /\ pc' = "enrich_sales_data"
    /\ UNCHANGED <<outcome, file, raw_lines, transactions, valid_temp,
                   summary_temp, valid_transactions, invalid_count, summary,
                   api_products, product_mapping, report_file, region,
                   min_amount, max_amount, n, threshold>>

NextEnrich == CallCreateProductMapping \/ CallEnrich

SpecEnrich == InitEnrich /\ [][NextEnrich]_vars

original_fields ==
    {"TransactionID", "Date", "ProductID", "ProductName", "Quantity",
     "UnitPrice", "CustomerID", "Region"}

\* C3: enrich_sales_data returns as many records as it is given, the i-th
\* carrying the eight original field values of the i-th input record
C3_EnrichTotalOrdered ==
    pc = "enrich_sales_data" =>
        /\ Len(ret) = Len(transactions)
        /\ \A i \in 1..Len(ret) : \A f \in original_fields :
              ret[i][f] = transactions[i][f]

\* two records enriched, the first without a match, the second with one
C3_Witness ==
    /\ pc = "enrich_sales_data"
    /\ Len(ret) = 2
    /\ ~ret[1].API_Match
    /\ ret[2].API_Match
    /\ ret[1].TransactionID # ret[2].TransactionID

HasDigit(s) == \E i \in 1..Len(s) : s[i] \in Digits

\* the first run of digits of s, which has one
FirstRun(s) ==
    LET i == CHOOSE k \in 1..Len(s) :
                 s[k] \in Digits /\ \A h \in 1..(k - 1) : s[h] \notin Digits
        j == CHOOSE k \in i..Len(s) :
                 /\ \A h \in i..k : s[h] \in Digits
                 /\ k = Len(s) \/ s[k + 1] \notin Digits
    IN  SubSeq(s, i, j)

KeysOf(d) == {d[i][1] : i \in 1..Len(d)}

\* C4: api_match is true exactly when the product_id has a digit run and its
\* first run, read as a number, is a key of the mapping; when api_match is
\* false the three catalog fields are None
C4_MatchByFirstDigitRun ==
    pc = "enrich_sales_data" =>
        \A i \in 1..Len(ret) :
           /\ ret[i].API_Match <=>
                 /\ HasDigit(transactions[i].ProductID)
                 /\ DecVal(FirstRun(transactions[i].ProductID))
                       \in KeysOf(product_mapping)
           /\ ~ret[i].API_Match =>
                 /\ IsNone(ret[i].API_Category)
                 /\ IsNone(ret[i].API_Brand)
                 /\ IsNone(ret[i].API_Rating)

\* a product_id without digits and one with two digit runs, under a mapping
\* that holds the first run of the latter
C4_Witness ==
    /\ pc = "enrich_sales_data"
    /\ \E i \in 1..Len(ret) :
          ~HasDigit(transactions[i].ProductID) /\ ~ret[i].API_Match
    /\ \E i \in 1..Len(ret) :
          /\ transactions[i].ProductID = <<"P", "a", "1", "b", "7">>
          /\ ret[i].API_Match
    /\ product_mapping # << >>

\* the position of the last entry of the catalog carrying the id k
LastWithId(products, k) ==
    CHOOSE i \in 1..Len(products) :
        /\ products[i].id = Some(k)
        /\ \A j \in (i + 1)..Len(products) : products[j].id # Some(k)

\* C14: create_product_mapping is last-write-wins: its keys are the ids of
\* the entries that have one, each once, each mapped to the title, category,
\* brand and rating of the last entry carrying it; an entry without an id
\* contributes nothing
C14_LastWriteWins ==
    pc = "create_product_mapping" =>
        /\ KeysOf(ret) = {Val(api_products[i].id) :
                             i \in {j \in 1..Len(api_products) :
                                       ~IsNone(api_products[j].id)}}
        /\ Len(ret) = Cardinality(KeysOf(ret))
        /\ \A i \in 1..Len(ret) :
              LET p == api_products[LastWithId(api_products, ret[i][1])]
              IN  ret[i][2] = [title |-> p.title, category |-> p.category,
                               brand |-> p.brand, rating |-> p.rating]

\* a catalog of two entries of one id that differ and an entry without id
C14_Witness ==
    /\ pc = "create_product_mapping"
    /\ Len(api_products) = 3
    /\ \E i, j \in 1..3 :
          /\ i < j
          /\ ~IsNone(api_products[i].id)
          /\ api_products[i].id = api_products[j].id
          /\ api_products[i].category # api_products[j].category
    /\ \E i \in 1..3 : IsNone(api_products[i].id)
    /\ Len(ret) = 1

====
